---------------------------- MODULE Spec2Model ----------------------------
(***************************************************************************)
(* Model of the airplane flight optimizer core: the Graph container        *)
(* (src/cpp/Graph.h, src/cpp/Graph.cpp) and findShortestPath               *)
(* (src/cpp/Dijkstra.cpp), a lazy-deletion Dijkstra over a std::priority_  *)
(* queue followed by a walk over the `previous` map.                       *)
(*                                                                         *)
(* A double is modelled as an integer in -DblMax..DblMax together with the *)
(* two infinities; a sum that leaves the finite range saturates to the     *)
(* infinity of its sign, as IEEE addition does past DBL_MAX.               *)
(***************************************************************************)
EXTENDS Integers, Sequences, FiniteSets, Bags, TLC

\* ------------------------------------------------------------------ bounds
MaxRoutes == 2
MaxRoutesNeg == 2
MaxWeight == 1
MinWeight == 1
DblMax == 8
MaxPathLen == 4

\* Airport identifiers are std::string values; "" is one of them.
Ids == {"", "JFK", "ORD"}

\* Route weights a caller passes when it honours the non-negative precondition,
\* and when it does not.
Weights == 0..MaxWeight
AnyWeights == (0 - MinWeight)..MaxWeight

\* ----------------------------------------------------------------- doubles
Infinity == DblMax + 1
NegInfinity == 0 - (DblMax + 1)

\* x + w for a double x and a finite w.
DAdd(x, w) ==
    IF x = Infinity \/ x = NegInfinity THEN x
    ELSE IF x + w > DblMax THEN Infinity
    ELSE IF x + w < 0 - DblMax THEN NegInfinity
    ELSE x + w

\* ------------------------------------------------------------ std:: helpers
\* unordered_map::operator[] used as an lvalue: insert or overwrite.
MapPut(m, k, v) == [x \in (DOMAIN m) \cup {k} |-> IF x = k THEN v ELSE m[x]]

\* unordered_map::operator[] used as an rvalue: a missing key reads as the
\* value-initialised element.
MapGet(m, k, dflt) == IF k \in DOMAIN m THEN m[k] ELSE dflt

Edge(d, w) == [destination |-> d, distance |-> w]
QueueNode(a, d) == [airportId |-> a, distance |-> d]
EmptyResult == [path |-> <<>>, totalDistance |-> 0]
NoCurrent == QueueNode("", 0)

\* ------------------------------------------------------------------- state
VARIABLES
    adjList,     \* Graph::adjList: airport id -> vector<Edge>
    pc,          \* position inside findShortestPath, "idle" outside a call
    sourceId,    \* arguments of the call in progress
    targetId,
    pq,          \* the priority queue, a bag of QueueNode
    distances,   \* id -> double
    previous,    \* id -> id, "" for none
    current,     \* the entry extracted last by the main loop
    curr,        \* cursor of the path reconstruction
    result       \* PathResult

vars == <<adjList, pc, sourceId, targetId, pq, distances, previous, current,
          curr, result>>

locals == <<sourceId, targetId, pq, distances, previous, current, curr, result>>

\* -------------------------------------------------------------------- Graph
hasAirport(g, id) == id \in DOMAIN g

getRoutes(g, id) == IF id \in DOMAIN g THEN g[id] ELSE <<>>

AddAirportTo(g, id) == IF id \notin DOMAIN g THEN MapPut(g, id, <<>>) ELSE g

\* addRoute without the reciprocal push_back.
AddRouteOneWay(g, s, d, w) ==
    LET g1 == MapPut(g, s, Append(MapGet(g, s, <<>>), Edge(d, w)))
    IN  MapPut(g1, d, MapGet(g1, d, <<>>))

AddRouteTo(g, s, d, w) ==
    LET g1 == MapPut(g, s, Append(MapGet(g, s, <<>>), Edge(d, w)))
    IN  MapPut(g1, d, Append(MapGet(g1, d, <<>>), Edge(s, w)))

RECURSIVE SumLen(_, _)
SumLen(g, S) ==
    IF S = {} THEN 0
    ELSE LET n == CHOOSE x \in S : TRUE
         IN  Len(g[n]) + SumLen(g, S \ {n})

\* Number of addRoute calls made so far: each appends two edges.
NumRoutes == SumLen(adjList, DOMAIN adjList) \div 2

addAirport(id) ==
    /\ pc = "idle"
    /\ adjList' = AddAirportTo(adjList, id)
    /\ UNCHANGED <<pc, locals>>

addRoute(s, d, w) ==
    /\ pc = "idle"
    /\ adjList' = AddRouteTo(adjList, s, d, w)
    /\ UNCHANGED <<pc, locals>>

\* --------------------------------------------------------- findShortestPath
\* The early return taken only when both endpoints are missing.
EndpointMissingBoth(g, s, t) == ~hasAirport(g, s) /\ ~hasAirport(g, t)

\* The guard of the early return.
EndpointMissing(g, s, t) == ~hasAirport(g, s) \/ ~hasAirport(g, t)

InitDistances(g, s) ==
    MapPut([n \in DOMAIN g |-> Infinity], s, 0)

InitPrevious(g) == [n \in DOMAIN g |-> ""]

\* Entry, the existence check and the initialisation up to the first push.
Begin(s, t) ==
    /\ pc = "idle"
    /\ sourceId' = s
    /\ targetId' = t
    /\ result' = EmptyResult
    /\ IF EndpointMissing(adjList, s, t)
       THEN /\ pc' = "done"
            /\ UNCHANGED <<pq, distances, previous>>
       ELSE /\ pc' = "loop"
            /\ distances' = InitDistances(adjList, s)
            /\ previous' = InitPrevious(adjList)
            /\ pq' = SetToBag({QueueNode(s, 0)})
    /\ UNCHANGED <<adjList, current, curr>>

\* top() under std::less<>: an entry of greatest distance.
IsTopMax(q, e) ==
    /\ BagIn(e, q)
    /\ \A f \in BagToSet(q) : e.distance >= f.distance

\* std::greater<> over QueueNode::operator> makes top() an entry of least
\* distance; which one among equals is the heap's business.
IsTop(q, e) ==
    /\ BagIn(e, q)
    /\ \A f \in BagToSet(q) : e.distance <= f.distance

\* The loop without its pq.pop().
PopKeep(q, e) == q

Pop(q, e) == q (-) SetToBag({e})

Push(q, e) == q (+) SetToBag({e})

\* The staleness test.
IsStale(e, dist) == e.distance > MapGet(dist, e.airportId, 0)

\* A relaxation that takes only the first distance found for a node.
RelaxFirstFound(st, cur, edge) ==
    LET newDist == DAdd(cur.distance, edge.distance)
    IN  IF newDist < MapGet(st.distances, edge.destination, 0)
           /\ MapGet(st.distances, edge.destination, 0) = Infinity
        THEN [distances |-> MapPut(st.distances, edge.destination, newDist),
              previous  |-> MapPut(st.previous, edge.destination, cur.airportId),
              pq        |-> Push(st.pq, QueueNode(edge.destination, newDist))]
        ELSE st

\* The body of the for loop for one edge, on st = [distances, previous, pq].
Relax(st, cur, edge) ==
    LET newDist == DAdd(cur.distance, edge.distance)
    IN  IF newDist < MapGet(st.distances, edge.destination, 0)
        THEN [distances |-> MapPut(st.distances, edge.destination, newDist),
              previous  |-> MapPut(st.previous, edge.destination, cur.airportId),
              pq        |-> Push(st.pq, QueueNode(edge.destination, newDist))]
        ELSE st

RECURSIVE RelaxAll(_, _, _, _)
RelaxAll(st, cur, edges, i) ==
    IF i > Len(edges) THEN st
    ELSE RelaxAll(Relax(st, cur, edges[i]), cur, edges, i + 1)

\* One pass of the while loop, or its exit on an empty queue.
MainLoop ==
    /\ pc = "loop"
    /\ IF pq = EmptyBag
       THEN /\ pc' = "reconstruct"
            /\ curr' = targetId
            /\ UNCHANGED <<pq, distances, previous, current>>
       ELSE \E e \in BagToSet(pq) :
            /\ IsTop(pq, e)
            /\ current' = e
            /\ IF e.airportId = targetId
               THEN /\ pc' = "reconstruct"
                    /\ curr' = targetId
                    /\ pq' = Pop(pq, e)
                    /\ UNCHANGED <<distances, previous>>
               ELSE IF IsStale(e, distances)
               THEN /\ pq' = Pop(pq, e)
                    /\ UNCHANGED <<pc, curr, distances, previous>>
               ELSE LET st == RelaxAll([distances |-> distances,
                                        previous |-> previous,
                                        pq |-> Pop(pq, e)],
                                       e, getRoutes(adjList, e.airportId), 1)
                    IN  /\ distances' = st.distances
                        /\ previous' = st.previous
                        /\ pq' = st.pq
                        /\ UNCHANGED <<pc, curr>>
    /\ UNCHANGED <<adjList, sourceId, targetId, result>>

\* The condition of the reconstruction loop.
WalkOn(c, prev) == c # "" /\ c \in DOMAIN prev

\* One pass of the reconstruction loop, or its exit.  An insert into a vector
\* that already holds MaxPathLen elements finds no memory and throws.
Reconstruct ==
    /\ pc = "reconstruct"
    /\ IF WalkOn(curr, previous)
       THEN IF Len(result.path) >= MaxPathLen
            THEN /\ pc' = "bad_alloc"
                 /\ UNCHANGED <<curr, result>>
            ELSE /\ result' = [result EXCEPT !.path = <<curr>> \o @]
                 /\ curr' = previous[curr]
                 /\ UNCHANGED pc
       ELSE /\ pc' = "total"
            /\ UNCHANGED <<curr, result>>
    /\ UNCHANGED <<adjList, sourceId, targetId, pq, distances, previous, current>>

\* result.totalDistance and the return.
Finish ==
    /\ pc = "total"
    /\ result' = IF targetId \in DOMAIN distances
                 THEN [result EXCEPT !.totalDistance = distances[targetId]]
                 ELSE result
    /\ pc' = "done"
    /\ UNCHANGED <<adjList, sourceId, targetId, pq, distances, previous, current, curr>>

\* The caller takes the result (or the exception); the locals go away.
Return ==
    /\ pc \in {"done", "bad_alloc"}
    /\ pc' = "idle"
    /\ sourceId' = ""
    /\ targetId' = ""
    /\ pq' = EmptyBag
    /\ distances' = <<>>
    /\ previous' = <<>>
    /\ current' = NoCurrent
    /\ curr' = ""
    /\ result' = EmptyResult
    /\ UNCHANGED adjList

QueryStep == MainLoop \/ Reconstruct \/ Finish

\* ----------------------------------------------------------- specifications
Init ==
    /\ adjList = <<>>
    /\ pc = "idle"
    /\ sourceId = ""
    /\ targetId = ""
    /\ pq = EmptyBag
    /\ distances = <<>>
    /\ previous = <<>>
    /\ current = NoCurrent
    /\ curr = ""
    /\ result = EmptyResult

Next ==
    \/ \E id \in Ids : addAirport(id)
    \/ \E s \in Ids, d \in Ids, w \in Weights :
          NumRoutes < MaxRoutes /\ addRoute(s, d, w)
    \/ \E s \in Ids, t \in Ids : Begin(s, t)
    \/ MainLoop
    \/ Reconstruct
    \/ Finish
    \/ Return

NextNeg ==
    \/ \E id \in Ids : addAirport(id)
    \/ \E s \in Ids, d \in Ids, w \in AnyWeights :
          NumRoutes < MaxRoutesNeg /\ addRoute(s, d, w)
    \/ \E s \in Ids, t \in Ids : Begin(s, t)
    \/ MainLoop
    \/ Reconstruct
    \/ Finish
    \/ Return

\* Callers that keep the non-negative precondition.
Spec == Init /\ [][Next]_vars

\* The same, with the call in progress running on: the code is sequential and
\* nothing suspends it.
FairSpec == Init /\ [][Next]_vars /\ WF_vars(QueryStep)

\* Callers that also pass negative weights.
SpecNeg == Init /\ [][NextNeg]_vars

FairSpecNeg == Init /\ [][NextNeg]_vars /\ WF_vars(QueryStep)

\* ------------------------------------------------- reference definitions
\* What the claims compare the code against: brute-force enumeration over the
\* stored adjacency, independent of the search above.
Nodes == DOMAIN adjList

EdgeWeights(u, v) ==
    {adjList[u][i].distance :
        i \in {j \in 1..Len(adjList[u]) : adjList[u][j].destination = v}}

HasEdge(u, v) == EdgeWeights(u, v) # {}

CountEdges(u, v, w) ==
    Cardinality({i \in 1..Len(adjList[u]) : adjList[u][i] = Edge(v, w)})

SetMin(S) == CHOOSE x \in S : \A y \in S : x <= y

MinEdge(u, v) == SetMin(EdgeWeights(u, v))

\* p walks edges of the graph.
IsWalk(p) ==
    /\ Len(p) >= 1
    /\ \A i \in 1..Len(p) : p[i] \in Nodes
    /\ \A i \in 1..(Len(p) - 1) : HasEdge(p[i], p[i + 1])

SimplePaths(s, t) ==
    {p \in UNION {[1..n -> Nodes] : n \in 1..Cardinality(Nodes)} :
        /\ p[1] = s
        /\ p[Len(p)] = t
        /\ \A i \in 1..Len(p) : \A j \in 1..Len(p) : p[i] = p[j] => i = j
        /\ IsWalk(p)}

RECURSIVE WalkCost(_, _)
WalkCost(p, i) ==
    IF i >= Len(p) THEN 0
    ELSE MinEdge(p[i], p[i + 1]) + WalkCost(p, i + 1)

Reachable(s, t) == SimplePaths(s, t) # {}

ShortestCost(s, t) == SetMin({WalkCost(p, 1) : p \in SimplePaths(s, t)})

BothPresent == sourceId \in Nodes /\ targetId \in Nodes

\* The call went through the search (as opposed to the early return).
Searched == pc \in {"loop", "reconstruct", "total"} \/ (pc = "done" /\ BothPresent)

\* Whether the walk over `previous` that starts at c, as the reconstruction
\* makes it, comes to n within k steps.
RECURSIVE ComesBack(_, _, _)
ComesBack(n, c, k) ==
    IF c = "" \/ c \notin DOMAIN previous THEN FALSE
    ELSE IF c = n THEN TRUE
    ELSE IF k = 0 THEN FALSE
    ELSE ComesBack(n, previous[c], k - 1)

\* ------------------------------------------------------------------ claims

\* C1: with non-negative weights and both endpoints present and connected,
\* the returned totalDistance is the least cost over all simple paths, a step
\* between two nodes costing its cheapest parallel route.
C1_ShortestDistance ==
    (pc = "done" /\ BothPresent /\ Reachable(sourceId, targetId))
        => result.totalDistance = ShortestCost(sourceId, targetId)

\* A call has returned for distinct connected endpoints where a direct route
\* is dearer than the distance returned: a cheaper parallel route or a detour
\* decided.
C1_Witness ==
    /\ pc = "done"
    /\ BothPresent
    /\ sourceId # targetId
    /\ Reachable(sourceId, targetId)
    /\ \E w \in EdgeWeights(sourceId, targetId) : w > result.totalDistance

\* C2: with non-negative weights and the target reachable, the returned path
\* starts at the source, ends at the target, steps only along stored edges,
\* and its cheapest-edge cost is the returned totalDistance.
C2_PathIsRoute ==
    (pc = "done" /\ BothPresent /\ Reachable(sourceId, targetId))
        => /\ Len(result.path) >= 1
           /\ result.path[1] = sourceId
           /\ result.path[Len(result.path)] = targetId
           /\ IsWalk(result.path)
           /\ WalkCost(result.path, 1) = result.totalDistance

\* C3: for distinct present endpoints with the target unreachable the call
\* returns the empty path and totalDistance 0.
C3_UnreachableIsEmpty ==
    (pc = "done" /\ BothPresent /\ sourceId # targetId
        /\ ~Reachable(sourceId, targetId))
        => result = EmptyResult

\* C4: a call with an endpoint that is not a node returns the empty path and
\* totalDistance 0 straight away, the search state untouched, and no step of
\* any call changes the graph.
C4_MissingEndpoint ==
    [][/\ (pc = "idle" /\ pc' # "idle"
             /\ (sourceId' \notin DOMAIN adjList \/ targetId' \notin DOMAIN adjList))
          => /\ pc' = "done"
             /\ result' = EmptyResult
             /\ pq' = EmptyBag /\ distances' = <<>> /\ previous' = <<>>
             /\ adjList' = adjList
       /\ ((pc # "idle" \/ pc' # "idle") => adjList' = adjList)]_vars

\* A call has returned early on a graph that holds the other endpoint.
C4_Witness ==
    /\ pc = "done"
    /\ sourceId \notin Nodes
    /\ targetId \in Nodes
    /\ adjList[targetId] # <<>>

\* C5: a call from a present node to itself returns the one-node path and
\* totalDistance 0, whatever the identifier.
C5_SelfPath ==
    (pc = "done" /\ BothPresent /\ sourceId = targetId)
        => result = [path |-> <<sourceId>>, totalDistance |-> 0]

\* C6: on any graph addAirport/addRoute can build, negative weights included,
\* a call that entered the search returns a PathResult.
C6_AlwaysReturns == [](pc = "loop" => <>(pc = "done"))

\* The stored adjacency is symmetric and closed.
GraphSymmetricClosed ==
    /\ \A a \in Nodes : \A i \in 1..Len(adjList[a]) :
          adjList[a][i].destination \in Nodes
    /\ \A a \in Nodes : \A b \in Nodes : \A w \in AnyWeights :
          CountEdges(a, b, w) = CountEdges(b, a, w)

\* C7: after any addAirport/addRoute sequence every edge a->b of weight w is
\* matched by as many edges b->a of weight w, every destination is a node, and
\* addAirport on a node that exists changes nothing.
C7_UndirectedClosed ==
    /\ []GraphSymmetricClosed
    /\ [][\A id \in Ids :
             (id \in DOMAIN adjList /\ addAirport(id)) => adjList' = adjList]_vars

\* Two parallel routes join two distinct nodes, one of them created by
\* addRoute itself, and a third node was added on its own.
C7_Witness ==
    \E a \in Nodes : \E b \in Nodes \ {a} : \E c \in Nodes \ {a, b} :
        /\ Len(adjList[a]) = 2
        /\ \A i \in 1..2 : adjList[a][i].destination = b
        /\ adjList[c] = <<>>

\* C8: with non-negative weights every search ends (a call is again and again
\* either returned or not running, and never throws); the main loop is left
\* only on an empty queue or on extracting the target, and the path never
\* holds more entries than the graph has nodes.
C8_Terminates ==
    /\ []<>(pc \in {"idle", "done"})
    /\ [](pc # "bad_alloc")
    /\ [][(pc = "loop" /\ pc' # "loop")
            => /\ pc' = "reconstruct"
               /\ (pq = EmptyBag \/ current'.airportId = targetId)]_vars
    /\ [](Len(result.path) <= Cardinality(Nodes))

\* A search over a graph with a zero-weight route and parallel routes has
\* returned a two-node path with entries left in the queue.
C8_Witness ==
    /\ pc = "done"
    /\ BothPresent
    /\ Len(result.path) = 2
    /\ pq # EmptyBag
    /\ 0 \in EdgeWeights(sourceId, targetId)
    /\ 1 \in EdgeWeights(sourceId, targetId)

\* What holds once the loop was left on the target.
TargetExtractedFinal ==
    (pc \in {"reconstruct", "total"} /\ current.airportId = targetId)
        => /\ current.distance = distances[targetId]
           /\ current.distance = ShortestCost(sourceId, targetId)
           /\ \A f \in BagToSet(pq) : f.distance >= current.distance

\* A pass that extracted a stale entry of a node other than the target.
StaleDiscarded ==
    (pc = "loop" /\ pc' = "loop" /\ pq # EmptyBag
        /\ current'.airportId # targetId
        /\ current'.distance > distances[current'.airportId])
        => /\ distances' = distances
           /\ previous' = previous
           /\ pq' = pq (-) SetToBag({current'})
           /\ BagIn(current', pq)

\* C9: with non-negative weights, the entry whose extraction ends the loop on
\* the target carries the target's current and true shortest distance and no
\* queued entry is below it; a stale entry of another node is dropped and
\* nothing else changes.
C9_TargetExtraction == []TargetExtractedFinal /\ [][StaleDiscarded]_vars

\* The loop was left on the target while a dearer, stale entry of the target
\* is still queued.
C9_Witness ==
    /\ pc = "reconstruct"
    /\ current.airportId = targetId
    /\ \E f \in BagToSet(pq) :
          f.airportId = targetId /\ f.distance > current.distance

\* The predecessor map is a tree rooted at the source.
PredecessorTree ==
    Searched =>
        /\ previous[sourceId] = ""
        /\ distances[sourceId] = 0
        /\ \A n \in Nodes \ {sourceId} :
              (previous[n] # "") <=> (distances[n] # Infinity)
        /\ \A n \in Nodes : previous[n] # "" =>
              /\ previous[n] \in Nodes
              /\ \E w \in EdgeWeights(previous[n], n) :
                    distances[n] = distances[previous[n]] + w
        /\ \A n \in Nodes : ~ComesBack(n, previous[n], Cardinality(Nodes))

\* C10: with non-negative weights the predecessor map stays a tree rooted at
\* the source through the main loop, and no tentative distance increases.
C10_PredecessorTree ==
    /\ []PredecessorTree
    /\ [][(pc = "loop" /\ pc' \in {"loop", "reconstruct"})
            => \A n \in Nodes : distances'[n] <= distances[n]]_vars

\* ------------------------------------------------------- supporting lemmas
\* The reconstruction stops at curr = "", the value `previous` also uses for
\* "no predecessor".  Away from a node named "" the path and the predecessor
\* map are as C2, C5 and C10 describe them.
PathIsRouteWithoutEmptyId == ("" \notin Nodes) => C2_PathIsRoute

SelfPathOfNamedNode == (sourceId # "") => C5_SelfPath

PredecessorTreeWithoutEmptyId == ("" \notin Nodes) => PredecessorTree

\* What the code returns where C3 expects the empty result: the target alone
\* and an infinite distance.
UnreachableResult ==
    (pc = "done" /\ BothPresent /\ sourceId # targetId /\ targetId # ""
        /\ ~Reachable(sourceId, targetId))
        => result = [path |-> <<targetId>>, totalDistance |-> Infinity]

=============================================================================
